---- MODULE Spec2Model ----
(***************************************************************************)
(* Model of src/code-review-chat/CodeReviewChat.ts: the Chatter channel    *)
(* resolver (getChat / listAllMemberships), the CodeReviewChatDeleter      *)
(* (stale message reconciler) and the CodeReviewChat announcement          *)
(* publisher.  Every await of the source is one step of the model: an      *)
(* action is the response of the awaited call together with the            *)
(* synchronous code that follows it up to the next await.                  *)
(***************************************************************************)
EXTENDS Integers, Sequences, FiniteSets, TLC

VARIABLES
    \* ---- Chatter / listAllMemberships
    notificationChannel, \* Chatter.notificationChannel (configured name)
    pages,               \* the messaging server's membership pages
    groups,              \* listAllMemberships: last response (or undefined)
    channels,            \* listAllMemberships: accumulated channels
    listLog,             \* conversations.list requests issued: [cursor, ok]
    chatPc,              \* getChat: "idle" | "listing" | "resolved" | "notfound"
    memberships,         \* value returned by listAllMemberships
    chat,                \* channel id returned by getChat
    \* ---- CodeReviewChatDeleter
    elevatedClient,      \* TRUE iff slackElevatedUserToken was given
    delPc,               \* "idle" | "getChat" | "replies" | "deleting" | "done"
    delResult,           \* "running" | "ok" (run returned) | "failed" (run threw)
    messages,            \* response.messages of conversations.history
    messagesToDelete,    \* the filtered messages, later with the replies pushed
    replies,             \* replies collected from the fetched threads
    idx,                 \* reply loop: index of the message whose thread is awaited
    didx,                \* delete loop: index of the message whose delete is awaited
    fetchLog,            \* conversations.replies calls: [ts, result, thread]
    deleteLog,           \* chat.delete calls: [ts, as_user, ok]
    historyCall,         \* conversations.history: "none" | "rejected" | "notok" | "ok"
    lastPass,            \* what the pass before this one read from and deleted in the channel
    \* ---- the pull request and its providers (remote state)
    pr,                  \* options.payload.pr
    issue,               \* what getIssue answers: author, assignee, milestone
    writeAccess,         \* what hasWriteAccess(author) answers
    repoMilestone,       \* what getCurrentRepoMilestone answers ("" = none)
    reviews,             \* logins of the reviews listReviews answers with
    requests,            \* users listReviewRequests answers with
    posted,              \* announcements chat.postMessage put in the channel
    \* ---- CodeReviewChat.run
    runNo,               \* number of the current run
    pubPc,               \* "start" | "getIssue" | "hasWriteAccess" | "tasks" | "done"
    pubResult,           \* "running" | "ok" (run returned) | "failed" (run threw)
    data,                \* the issue as getIssue returned it
    access,              \* what hasWriteAccess answered: "none" | "yes" | "no"
    assignTask,          \* "none" | "pending" | "ok" | "failed"
    milestoneTask,       \* "none" | "query" | "set" | "ok" | "failed"
    reviewsCall,         \* listReviews: "none" | "pending" | "ok" | "failed"
    requestsCall,        \* listReviewRequests: "none" | "pending" | "ok" | "failed"
    postTask,            \* "none" | "queries" | "getChat" | "ok" | "failed"
    calls,               \* per API, the arguments of the calls of this run
    diffMessage          \* diffMessage of the blocks chat.postMessage was called with

chatVars == <<notificationChannel, pages, groups, channels, listLog, chatPc,
              memberships, chat>>

delVars == <<elevatedClient, delPc, delResult, messages, messagesToDelete,
             replies, idx, didx, fetchLog, deleteLog, historyCall, lastPass>>

remoteVars == <<pr, issue, writeAccess, repoMilestone, reviews, requests>>

pubVars == <<posted, runNo, pubPc, pubResult, data, access, assignTask, milestoneTask,
             reviewsCall, requestsCall, postTask, calls, diffMessage>>

vars == <<chatVars, delVars, remoteVars, pubVars>>

----------------------------------------------------------------------------
(* Bounds of the model *)

\* longest page sequence the messaging server holds
MaxPages == 2

\* longest channel history the messaging server returns
MaxHist == 2

\* most replies of its own a fetched thread carries
MaxReplies == 2

\* most reviews a pull request carries
MaxReviews == 2

\* most files a pull request changes
MaxFiles == 2

\* most Publisher runs for the pull request
MaxRuns == 2

----------------------------------------------------------------------------
(* Chatter.getChat and listAllMemberships *)

\* a falsy / absent next_cursor, and the cursor of the first request
NoCursor == 0

\* no channel resolved
NoChannel == "none"

ChannelPool ==
    { [id |-> "C1", name |-> "codereview", is_member |-> TRUE],
      [id |-> "C2", name |-> "codereview", is_member |-> FALSE],
      [id |-> "C3", name |-> "general",    is_member |-> TRUE],
      [id |-> "C4", name |-> "general",    is_member |-> FALSE] }

\* the channel lists one page can carry: up to two distinct channels
PageChoices ==
    {<<>>} \cup {<<c>> : c \in ChannelPool}
           \cup UNION {{<<c, d>> : d \in ChannelPool \ {c}} : c \in ChannelPool}

PageSeqs(n) == UNION {[1..k -> PageChoices] : k \in 1..n}

\* groups = undefined
Undefined == [defined |-> FALSE, next_cursor |-> NoCursor]

\* the server's answer to conversations.list({cursor}): the first page for an
\* absent cursor, page c for cursor c; the last page carries no next cursor
ServerPage(cursor) ==
    LET k == IF cursor = NoCursor THEN 1 ELSE cursor
    IN  [channels |-> pages[k],
         next_cursor |-> IF k < Len(pages) THEN k + 1 ELSE NoCursor]

\* groups?.response_metadata?.next_cursor
NextCursorOf(g) == IF g.defined THEN g.next_cursor ELSE NoCursor

\* channels.filter((c) => c.is_member), with the filter dropped
FilterMembers_KeepAll(cs) == cs

\* channels.filter((c) => c.is_member)
FilterMembers(cs) == SelectSeq(cs, LAMBDA c : c.is_member)

\* memberships.find((m) => m.name === name): index of the first match, 0 if none
RECURSIVE FindByName(_, _, _)
FindByName(ms, name, i) ==
    IF i > Len(ms) THEN 0
    ELSE IF ms[i].name = name THEN i
    ELSE FindByName(ms, name, i + 1)

\* getChat after listAllMemberships returned: the channel id, or NoChannel
\* when the name is empty or matches no membership (the throw)
ResolveChannel(ms, name) ==
    LET i == FindByName(ms, name, 1)
    IN  IF name = "" \/ i = 0 THEN NoChannel ELSE ms[i].id

\* the code after the loop, with getChat returning whatever find gave
\* instead of throwing
FinishListing_NoThrow(cs) ==
    /\ memberships' = FilterMembers(cs)
    /\ chat' = ResolveChannel(FilterMembers(cs), notificationChannel)
    /\ chatPc' = "resolved"

\* the code after the do-while loop ended: filter, then getChat's find
FinishListing(cs) ==
    LET ms == FilterMembers(cs)
        ch == ResolveChannel(ms, notificationChannel)
    IN  /\ memberships' = ms
        /\ chat' = ch
        /\ chatPc' = IF ch = NoChannel THEN "notfound" ELSE "resolved"

\* one iteration of the do-while loop whose request succeeds
ListPageOk ==
    /\ chatPc = "listing"
    /\ LET cursor == NextCursorOf(groups)
           resp == ServerPage(cursor)
           cs == channels \o resp.channels
       IN  /\ listLog' = Append(listLog, [cursor |-> cursor, ok |-> TRUE])
           /\ groups' = [defined |-> TRUE, next_cursor |-> resp.next_cursor]
           /\ channels' = cs
           /\ IF resp.next_cursor # NoCursor
              THEN UNCHANGED <<chatPc, memberships, chat>>
              ELSE FinishListing(cs)
    /\ UNCHANGED <<notificationChannel, pages>>
    /\ UNCHANGED <<delVars, remoteVars, pubVars>>

\* a throwing request that also drops the channels accumulated so far
ListPageFails_DropsAccumulated ==
    /\ chatPc = "listing"
    /\ listLog' = Append(listLog, [cursor |-> NextCursorOf(groups), ok |-> FALSE])
    /\ groups' = Undefined
    /\ channels' = <<>>
    /\ FinishListing(<<>>)
    /\ UNCHANGED <<notificationChannel, pages>>
    /\ UNCHANGED <<delVars, remoteVars, pubVars>>

\* one iteration of the do-while loop whose request throws: groups is reset,
\* which ends the loop
ListPageFails ==
    /\ chatPc = "listing"
    /\ listLog' = Append(listLog, [cursor |-> NextCursorOf(groups), ok |-> FALSE])
    /\ groups' = Undefined
    /\ UNCHANGED channels
    /\ FinishListing(channels)
    /\ UNCHANGED <<notificationChannel, pages>>
    /\ UNCHANGED <<delVars, remoteVars, pubVars>>

----------------------------------------------------------------------------
(* CodeReviewChatDeleter.run *)

\* this.prUrl, as a sequence of text tokens
PrUrl == <<"u", "1">>

\* message.reactions absent
NoReactions == [present |-> FALSE, list |-> <<>>]

Reacted(name, count) ==
    [present |-> TRUE, list |-> <<[name |-> name, count |-> count]>>]

SlackMessage(ts, subtype, text, reply_count, reactions) ==
    [ts |-> ts, subtype |-> subtype, text |-> text,
     reply_count |-> reply_count, reactions |-> reactions]

\* the kinds of message a channel history carries (ts filled in by position):
\* ordinary messages with and without the PR URL and with and without
\* reactions; ordinary messages that head a thread; channel_join notices;
\* tombstones of deleted messages, with and without replies left
MessageKinds ==
    { SlackMessage(0, "", t, 0, r) :
        t \in {<<"pr", "u", "1", "!">>, <<"u", "pr", "1">>},
        r \in {NoReactions, Reacted("white_check_mark", 1), Reacted("eyes", 2)} }
    \cup { SlackMessage(0, "", <<"pr", "u", "1", "!">>, 2, NoReactions),
           SlackMessage(0, "", <<"u", "pr", "1">>, 2, NoReactions),
           SlackMessage(0, "", <<"u", "pr", "1">>, 2, Reacted("white_check_mark", 1)) }
    \cup { SlackMessage(0, "channel_join", <<"joined">>, 0, NoReactions) }
    \cup { SlackMessage(0, "tombstone", <<"deleted">>, n, NoReactions) :
        n \in {0, 1} }

\* the histories conversations.history can answer with: up to n messages with
\* distinct timestamps
Histories(n) ==
    UNION { { [i \in 1..k |-> [h[i] EXCEPT !.ts = i]] : h \in [1..k -> MessageKinds] }
            : k \in 0..n }

\* a reply of the thread rooted at m
Reply(m, k, subtype) ==
    SlackMessage(10 * m.ts + k, subtype, <<"re">>, 0, NoReactions)

\* the messages conversations.replies can answer with for the thread of m: the
\* root, up to MaxReplies replies of its own, and possibly one more item: a
\* tombstone reply or a message that is also part of the channel history
ThreadChoices(m, hist) ==
    LET own(k) == [i \in 1..k |-> Reply(m, i, "")]
        extras == {Reply(m, MaxReplies + 1, "tombstone")}
                  \cup {hist[i] : i \in {j \in 1..Len(hist) : hist[j].ts # m.ts}}
    IN  { <<m>> \o own(k) : k \in 0..MaxReplies }
        \cup { <<m>> \o own(k) \o <<x>> : k \in {1}, x \in extras }

\* text.includes(url)
Includes(text, url) ==
    \E i \in 0..(Len(text) - Len(url)) : SubSeq(text, i + 1, i + Len(url)) = url

\* reactions.some((reaction) => reaction.name === 'white_check_mark')
SomeCheckMark(list) ==
    \E i \in 1..Len(list) : list[i].name = "white_check_mark"

\* the filter callback, with the white_check_mark rule open to every client
IsMessageToDelete_AnyClient(message, elevated) ==
    \/ message.subtype # ""
    \/ Includes(message.text, PrUrl)
    \/ message.reactions.present /\ SomeCheckMark(message.reactions.list)

\* the filter callback of messages.filter(...)
IsMessageToDelete(message, elevated) ==
    LET isCodeReviewMessage == Includes(message.text, PrUrl)
    IN  IF message.subtype # "" THEN TRUE
        ELSE IF elevated /\ message.reactions.present
             THEN isCodeReviewMessage \/ SomeCheckMark(message.reactions.list)
        ELSE isCodeReviewMessage

\* the reply loop fetching the thread of the first message only
NextFetch_OnlyFirst(list, i) ==
    IF i = 1 /\ Len(list) >= 1 /\ list[1].reply_count # 0
    THEN 1
    ELSE Len(list) + 1

\* the reply loop: index of the next message at or after i with replies to
\* fetch, Len + 1 when the loop is over
RECURSIVE NextFetch(_, _)
NextFetch(list, i) ==
    IF i > Len(list) THEN i
    ELSE IF list[i].reply_count # 0 THEN i
    ELSE NextFetch(list, i + 1)

\* the delete loop without its tombstone check
NextDelete_All(list, i) == i

\* the delete loop: index of the next message at or after i that is not a
\* tombstone, Len + 1 when the loop is over
RECURSIVE NextDelete(_, _)
NextDelete(list, i) ==
    IF i > Len(list) THEN i
    ELSE IF list[i].subtype # "tombstone" THEN i
    ELSE NextDelete(list, i + 1)

\* replyThread.messages, the root not sliced off
SliceOne_KeepRoot(thread) == thread

\* replyThread.messages.slice(1)
SliceOne(thread) == SubSeq(thread, 2, Len(thread))

\* lastPass of a first pass
NoPass ==
    [known |-> FALSE, messages |-> <<>>, fetchLog |-> <<>>, deleteLog |-> <<>>]

\* timestamps of the messages chat.delete removed in pass p
GoneTs(p) ==
    {p.deleteLog[i].ts : i \in {j \in 1..Len(p.deleteLog) : p.deleteLog[j].ok}}

\* pass p was answered the thread rooted at ts
KnownThread(p, ts) ==
    \E i \in 1..Len(p.fetchLog) : p.fetchLog[i].ts = ts /\ p.fetchLog[i].result = "ok"

\* the thread rooted at ts as pass p was answered it
ThreadOf(p, ts) ==
    p.fetchLog[CHOOSE i \in 1..Len(p.fetchLog) :
                 p.fetchLog[i].ts = ts /\ p.fetchLog[i].result = "ok"].thread

\* message m is still in the channel after pass p: it was not deleted, or it
\* had replies and is left as a tombstone
Remains(p, m) == m.ts \notin GoneTs(p) \/ m.reply_count > 0

\* the replies the thread of m holds after pass p
RepliesLeft(p, m) ==
    IF KnownThread(p, m.ts)
    THEN Len(SelectSeq(Tail(ThreadOf(p, m.ts)), LAMBDA r : Remains(p, r)))
    ELSE m.reply_count

\* message m as the channel holds it after pass p
MessageLeft(p, m) ==
    IF m.ts \in GoneTs(p)
    THEN SlackMessage(m.ts, "tombstone", <<"deleted">>, RepliesLeft(p, m), NoReactions)
    ELSE [m EXCEPT !.reply_count = RepliesLeft(p, m)]

\* the messages of list as the channel holds them after pass p
ListLeft(p, list) ==
    LET rest == SelectSeq(list, LAMBDA m : Remains(p, m))
    IN  [i \in 1..Len(rest) |-> MessageLeft(p, rest[i])]

\* the older messages that can enter the history window of limit messages once
\* pass p made room in it: none, or one message without replies and reactions
Older(p) ==
    IF Len(p.messages) = MaxHist /\ Len(ListLeft(p, p.messages)) < MaxHist
    THEN {<<>>} \cup {<<[k EXCEPT !.ts = MaxHist + 1]>> :
                        k \in {x \in MessageKinds :
                                 x.reply_count = 0 /\ ~x.reactions.present}}
    ELSE {<<>>}

\* the histories conversations.history can answer with in this pass: any in a
\* first pass, afterwards what the pass before left in the channel
ServerHistories ==
    IF lastPass.known
    THEN {ListLeft(lastPass, lastPass.messages) \o o : o \in Older(lastPass)}
    ELSE Histories(MaxHist)

\* the threads conversations.replies can answer with for m in this pass: what
\* the pass before left of the thread if it was answered it, any otherwise
ServerThreads(m, hist) ==
    IF lastPass.known /\ KnownThread(lastPass, m.ts)
    THEN {<<m>> \o ListLeft(lastPass, Tail(ThreadOf(lastPass, m.ts)))}
    ELSE ThreadChoices(m, hist)

\* run() returns
DeleterReturns ==
    /\ delPc' = "done"
    /\ delResult' = "ok"

\* an error escapes run()
DeleterThrows ==
    /\ delPc' = "done"
    /\ delResult' = "failed"

\* the delete loop from index i on, up to its next chat.delete call
ContinueDeleting(list, i) ==
    LET j == NextDelete(list, i)
    IN  IF j > Len(list)
        THEN DeleterReturns /\ didx' = didx
        ELSE delPc' = "deleting" /\ didx' = j /\ delResult' = delResult

\* the code after the reply loop with the replies put before the messages
\* selected from the history
AfterReplies_RepliesFirst(cands, reps) ==
    LET all == reps \o cands
    IN  /\ messagesToDelete' = all
        /\ IF Len(all) = 0
           THEN DeleterReturns /\ didx' = didx
           ELSE ContinueDeleting(all, 1)

\* the code after the reply loop: push the replies, return when nothing is
\* left to delete, otherwise enter the delete loop
AfterReplies(cands, reps) ==
    LET all == cands \o reps
    IN  /\ messagesToDelete' = all
        /\ IF Len(all) = 0
           THEN DeleterReturns /\ didx' = didx
           ELSE ContinueDeleting(all, 1)

\* the reply loop from index i on, up to its next conversations.replies call
ContinueReplies(cands, reps, i) ==
    LET j == NextFetch(cands, i)
    IN  /\ replies' = reps
        /\ IF j <= Len(cands)
           THEN /\ idx' = j
                /\ delPc' = "replies"
                /\ messagesToDelete' = cands
                /\ UNCHANGED <<delResult, didx>>
           ELSE /\ idx' = idx
                /\ AfterReplies(cands, reps)

\* getChat threw "Slack channel not found": the error escapes run()
DeleterChannelNotFound ==
    /\ delPc = "getChat"
    /\ chatPc = "notfound"
    /\ DeleterThrows
    /\ UNCHANGED <<elevatedClient, lastPass, historyCall, messages, messagesToDelete, replies, idx,
                   didx, fetchLog, deleteLog>>
    /\ UNCHANGED <<chatVars, remoteVars, pubVars>>

\* a failed conversations.history taken for an empty history: run() returns
HistoryFails_Ignored ==
    /\ delPc = "getChat"
    /\ chatPc = "resolved"
    /\ historyCall' \in {"rejected", "notok"}
    /\ DeleterReturns
    /\ UNCHANGED <<elevatedClient, lastPass, messages, messagesToDelete, replies, idx,
                   didx, fetchLog, deleteLog>>
    /\ UNCHANGED <<chatVars, remoteVars, pubVars>>

\* conversations.history rejects, or answers without ok / without messages:
\* the error escapes run()
HistoryFails ==
    /\ delPc = "getChat"
    /\ chatPc = "resolved"
    /\ historyCall' \in {"rejected", "notok"}
    /\ DeleterThrows
    /\ UNCHANGED <<elevatedClient, lastPass, messages, messagesToDelete, replies, idx,
                   didx, fetchLog, deleteLog>>
    /\ UNCHANGED <<chatVars, remoteVars, pubVars>>

\* conversations.history answers: filter the messages, start the reply loop
HistoryReturns ==
    /\ delPc = "getChat"
    /\ chatPc = "resolved"
    /\ \E h \in ServerHistories :
         /\ messages' = h
         /\ ContinueReplies(
                SelectSeq(h, LAMBDA m : IsMessageToDelete(m, elevatedClient)),
                <<>>, 1)
    /\ historyCall' = "ok"
    /\ UNCHANGED <<elevatedClient, lastPass, fetchLog, deleteLog>>
    /\ UNCHANGED <<chatVars, remoteVars, pubVars>>

\* conversations.replies rejects: nothing catches it, the error escapes run()
RepliesRejects ==
    /\ delPc = "replies"
    /\ fetchLog' = Append(fetchLog,
           [ts |-> messagesToDelete[idx].ts, result |-> "rejected", thread |-> <<>>])
    /\ DeleterThrows
    /\ UNCHANGED <<elevatedClient, lastPass, historyCall, messages, messagesToDelete, replies, idx,
                   didx, deleteLog>>
    /\ UNCHANGED <<chatVars, remoteVars, pubVars>>

\* conversations.replies answers without ok / without messages: logged, the
\* loop goes on
RepliesNotOk ==
    /\ delPc = "replies"
    /\ fetchLog' = Append(fetchLog,
           [ts |-> messagesToDelete[idx].ts, result |-> "notok", thread |-> <<>>])
    /\ ContinueReplies(messagesToDelete, replies, idx + 1)
    /\ UNCHANGED <<elevatedClient, lastPass, historyCall, messages, deleteLog>>
    /\ UNCHANGED <<chatVars, remoteVars, pubVars>>

\* conversations.replies answers with the thread: all but its first item are
\* collected, the loop goes on
RepliesReturns ==
    /\ delPc = "replies"
    /\ \E thread \in ServerThreads(messagesToDelete[idx], messages) :
         /\ fetchLog' = Append(fetchLog,
                [ts |-> messagesToDelete[idx].ts, result |-> "ok", thread |-> thread])
         /\ ContinueReplies(messagesToDelete, replies \o SliceOne(thread), idx + 1)
    /\ UNCHANGED <<elevatedClient, lastPass, historyCall, messages, deleteLog>>
    /\ UNCHANGED <<chatVars, remoteVars, pubVars>>

\* chat.delete succeeds: the loop goes on
DeleteReturns ==
    /\ delPc = "deleting"
    /\ deleteLog' = Append(deleteLog,
           [ts |-> messagesToDelete[didx].ts, as_user |-> elevatedClient, ok |-> TRUE])
    /\ ContinueDeleting(messagesToDelete, didx + 1)
    /\ UNCHANGED <<elevatedClient, lastPass, historyCall, messages, messagesToDelete, replies, idx, fetchLog>>
    /\ UNCHANGED <<chatVars, remoteVars, pubVars>>

\* chat.delete throws, with the catch inside the loop: the loop goes on
DeleteThrows_PerMessage ==
    /\ delPc = "deleting"
    /\ deleteLog' = Append(deleteLog,
           [ts |-> messagesToDelete[didx].ts, as_user |-> elevatedClient, ok |-> FALSE])
    /\ ContinueDeleting(messagesToDelete, didx + 1)
    /\ UNCHANGED <<elevatedClient, lastPass, historyCall, messages, messagesToDelete, replies, idx, fetchLog>>
    /\ UNCHANGED <<chatVars, remoteVars, pubVars>>

\* chat.delete throws, and the message is deleted with the standard client
\* instead before the loop goes on
DeleteThrows_FallsBack ==
    /\ delPc = "deleting"
    /\ deleteLog' = deleteLog \o
           <<[ts |-> messagesToDelete[didx].ts, as_user |-> elevatedClient, ok |-> FALSE],
             [ts |-> messagesToDelete[didx].ts, as_user |-> FALSE, ok |-> TRUE]>>
    /\ ContinueDeleting(messagesToDelete, didx + 1)
    /\ UNCHANGED <<elevatedClient, lastPass, historyCall, messages, messagesToDelete,
                   replies, idx, fetchLog>>
    /\ UNCHANGED <<chatVars, remoteVars, pubVars>>

\* chat.delete throws: the catch around the loop logs it and run() returns
DeleteThrows ==
    /\ delPc = "deleting"
    /\ deleteLog' = Append(deleteLog,
           [ts |-> messagesToDelete[didx].ts, as_user |-> elevatedClient, ok |-> FALSE])
    /\ DeleterReturns
    /\ UNCHANGED <<elevatedClient, lastPass, historyCall, messages, messagesToDelete, replies, idx,
                   didx, fetchLog>>
    /\ UNCHANGED <<chatVars, remoteVars, pubVars>>

\* the workflow is triggered again right after a pass that completed with
\* every chat.delete call succeeding: a new Deleter with the same PR URL and
\* clients runs on what that pass left in the channel
NextPass ==
    /\ delPc = "done"
    /\ delResult = "ok"
    /\ historyCall = "ok"
    /\ \A i \in 1..Len(deleteLog) : deleteLog[i].ok
    /\ ~lastPass.known
    /\ lastPass' = [known |-> TRUE, messages |-> messages, fetchLog |-> fetchLog,
                    deleteLog |-> deleteLog]
    /\ delPc' = "getChat"
    /\ delResult' = "running"
    /\ messages' = <<>>
    /\ messagesToDelete' = <<>>
    /\ replies' = <<>>
    /\ idx' = 0
    /\ didx' = 0
    /\ fetchLog' = <<>>
    /\ deleteLog' = <<>>
    /\ historyCall' = "none"
    /\ chatPc' = "listing"
    /\ groups' = Undefined
    /\ channels' = <<>>
    /\ listLog' = <<>>
    /\ memberships' = <<>>
    /\ chat' = NoChannel
    /\ UNCHANGED <<elevatedClient, notificationChannel, pages>>
    /\ UNCHANGED <<remoteVars, pubVars>>

----------------------------------------------------------------------------
(* CodeReviewChat.run *)

Apis ==
    {"getIssue", "hasWriteAccess", "addAssignee", "getCurrentRepoMilestone",
     "setMilestone", "listReviews", "listReviewRequests", "postMessage"}

NoCalls == [a \in Apis |-> <<>>]

\* the call log after a call of api with argument arg
Called(log, api, arg) == [log EXCEPT ![api] = Append(@, arg)]

\* data before getIssue returned
NoData == [author |-> "", assignee |-> "", milestone |-> ""]

\* diffMessage before a message was composed
NoMessage == ""

\* Number.prototype.toLocaleString() of a non-negative integer below one million:
\* decimal digits, in groups of three separated by commas
LocaleString(n) ==
    IF n < 1000 THEN ToString(n)
    ELSE LET low == n % 1000
             pad == IF low < 10 THEN "00" ELSE IF low < 100 THEN "0" ELSE ""
         IN  ToString(n \div 1000) \o "," \o pad \o ToString(low)

\* changedFilesMessage
ChangedFilesMessage(p) ==
    ToString(p.changed_files) \o " file" \o (IF p.changed_files > 1 THEN "s" ELSE "")

\* diffMessage
DiffMessage(p) ==
    "+" \o LocaleString(p.additions) \o " -" \o LocaleString(p.deletions)
        \o ", " \o ChangedFilesMessage(p)

\* the draft check answering no for every pull request
IsDraft_Never(p) == FALSE

\* this.pr.draft
IsDraft(p) == p.draft

\* the assignee check answering yes for every issue
ShouldAssign_Always(d) == TRUE

\* !data.assignee
ShouldAssign(d) == d.assignee = ""

\* data.milestone && currentMilestone: the negation lost
ShouldSetMilestone_Inverted(d, currentMilestone) ==
    d.milestone # "" /\ currentMilestone # ""

\* !data.milestone && currentMilestone
ShouldSetMilestone(d, currentMilestone) ==
    d.milestone = "" /\ currentMilestone # ""

\* existingReviews.data.some(...) counting the author's own reviews too
HasExistingReview_AuthorCounts(rs, author) == Len(rs) # 0

\* existingReviews.data.some((review) => review.user.login !== author.name)
HasExistingReview(rs, author) == \E i \in 1..Len(rs) : rs[i] # author

\* the gate looking at the review requests only
HasExisting_RequestsOnly(rs, users, author) == Len(users) # 0

\* hasExistingReview || existingRequests.data.users.length
HasExisting(rs, users, author) ==
    HasExistingReview(rs, author) \/ Len(users) # 0

\* Promise.all over the milestone and post tasks only
Join_IgnoresAssign(a, m, p) ==
    IF pubResult # "running" THEN pubResult
    ELSE IF "failed" \in {m, p} THEN "failed"
    ELSE IF {m, p} \subseteq {"none", "ok"} THEN "ok"
    ELSE "running"

\* Promise.all(tasks): rejected by the first task that fails, fulfilled once
\* every task is; a, m, p are the states of the three tasks
Join(a, m, p) ==
    IF pubResult # "running" THEN pubResult
    ELSE IF "failed" \in {a, m, p} THEN "failed"
    ELSE IF {a, m, p} \subseteq {"none", "ok"} THEN "ok"
    ELSE "running"

\* run() settles as Promise.all(tasks) does
Settle(a, m, p) ==
    /\ pubResult' = Join(a, m, p)
    /\ pubPc' = IF Join(a, m, p) = "running" THEN pubPc ELSE "done"

\* no call of the run is in flight any more
Quiescent ==
    /\ assignTask # "pending"
    /\ milestoneTask \notin {"query", "set"}
    /\ reviewsCall # "pending"
    /\ requestsCall # "pending"
    /\ postTask \notin {"queries", "getChat"}

\* postMessage calls getChat
StartGetChat ==
    /\ chatPc' = "listing"
    /\ groups' = Undefined
    /\ channels' = <<>>
    /\ memberships' = <<>>
    /\ chat' = NoChannel
    /\ UNCHANGED <<notificationChannel, pages, listLog>>

\* the draft check, then the getIssue call
RunStarts ==
    /\ pubPc = "start"
    /\ IF IsDraft(pr)
       THEN /\ pubPc' = "done"
            /\ pubResult' = "ok"
            /\ UNCHANGED calls
       ELSE /\ pubPc' = "getIssue"
            /\ calls' = Called(calls, "getIssue", "")
            /\ UNCHANGED pubResult
    /\ UNCHANGED <<diffMessage, posted, runNo, access, data, assignTask, milestoneTask, reviewsCall,
                   requestsCall, postTask>>
    /\ UNCHANGED <<chatVars, delVars, remoteVars>>

\* getIssue answers: hasWriteAccess(author) is called
GetIssueReturns ==
    /\ pubPc = "getIssue"
    /\ data' = issue
    /\ calls' = Called(calls, "hasWriteAccess", issue.author)
    /\ pubPc' = "hasWriteAccess"
    /\ UNCHANGED <<diffMessage, posted, runNo, access, pubResult, assignTask, milestoneTask,
                   reviewsCall, requestsCall, postTask>>
    /\ UNCHANGED <<chatVars, delVars, remoteVars>>

\* getIssue or hasWriteAccess throws: the error escapes run()
ProviderThrows ==
    /\ pubPc \in {"getIssue", "hasWriteAccess"}
    /\ pubPc' = "done"
    /\ pubResult' = "failed"
    /\ UNCHANGED <<diffMessage, posted, runNo, access, data, assignTask, milestoneTask, reviewsCall,
                   requestsCall, postTask, calls>>
    /\ UNCHANGED <<chatVars, delVars, remoteVars>>

\* the three tasks are pushed, which issues their first calls: addAssignee if
\* the issue has no assignee, getCurrentRepoMilestone, and both queries of
\* the post task
CreateTasks ==
    /\ pubPc' = "tasks"
    /\ assignTask' = IF ShouldAssign(data) THEN "pending" ELSE "none"
    /\ milestoneTask' = "query"
    /\ reviewsCall' = "pending"
    /\ requestsCall' = "pending"
    /\ postTask' = "queries"
    /\ calls' =
         LET c1 == IF ShouldAssign(data)
                   THEN Called(calls, "addAssignee", data.author)
                   ELSE calls
             c2 == Called(c1, "getCurrentRepoMilestone", "")
             c3 == Called(c2, "listReviews", "")
         IN  Called(c3, "listReviewRequests", "")
    /\ UNCHANGED pubResult

\* hasWriteAccess answers, with the tasks created whatever the answer is
HasWriteAccessReturns_NoCheck ==
    /\ pubPc = "hasWriteAccess"
    /\ access' = IF writeAccess THEN "yes" ELSE "no"
    /\ CreateTasks
    /\ UNCHANGED <<diffMessage, posted, runNo, data>>
    /\ UNCHANGED <<chatVars, delVars, remoteVars>>

\* hasWriteAccess answers: without write access the run returns; with it the
\* three tasks are created
HasWriteAccessReturns ==
    /\ pubPc = "hasWriteAccess"
    /\ access' = IF writeAccess THEN "yes" ELSE "no"
    /\ IF ~writeAccess
       THEN /\ pubPc' = "done"
            /\ pubResult' = "ok"
            /\ UNCHANGED <<assignTask, milestoneTask, reviewsCall, requestsCall,
                           postTask, calls>>
       ELSE CreateTasks
    /\ UNCHANGED <<diffMessage, posted, runNo, data>>
    /\ UNCHANGED <<chatVars, delVars, remoteVars>>

\* addAssignee answers or throws
AddAssigneeSettles ==
    /\ assignTask = "pending"
    /\ \E r \in {"ok", "failed"} :
         /\ assignTask' = r
         /\ Settle(r, milestoneTask, postTask)
    /\ UNCHANGED <<diffMessage, posted, runNo, access, data, milestoneTask, reviewsCall, requestsCall,
                   postTask, calls>>
    /\ UNCHANGED <<chatVars, delVars, remoteVars>>

\* getCurrentRepoMilestone answers: setMilestone is called if the issue has
\* no milestone and there is a current one
MilestoneQueryReturns ==
    /\ milestoneTask = "query"
    /\ IF ShouldSetMilestone(data, repoMilestone)
       THEN /\ milestoneTask' = "set"
            /\ calls' = Called(calls, "setMilestone", repoMilestone)
            /\ UNCHANGED <<pubResult, pubPc>>
       ELSE /\ milestoneTask' = "ok"
            /\ Settle(assignTask, "ok", postTask)
            /\ UNCHANGED calls
    /\ UNCHANGED <<diffMessage, posted, runNo, access, data, assignTask, reviewsCall, requestsCall,
                   postTask>>
    /\ UNCHANGED <<chatVars, delVars, remoteVars>>

\* getCurrentRepoMilestone throws
MilestoneQueryThrows ==
    /\ milestoneTask = "query"
    /\ milestoneTask' = "failed"
    /\ Settle(assignTask, "failed", postTask)
    /\ UNCHANGED <<diffMessage, posted, runNo, access, data, assignTask, reviewsCall, requestsCall,
                   postTask, calls>>
    /\ UNCHANGED <<chatVars, delVars, remoteVars>>

\* setMilestone answers or throws
SetMilestoneSettles ==
    /\ milestoneTask = "set"
    /\ \E r \in {"ok", "failed"} :
         /\ milestoneTask' = r
         /\ Settle(assignTask, r, postTask)
    /\ UNCHANGED <<diffMessage, posted, runNo, access, data, assignTask, reviewsCall, requestsCall,
                   postTask, calls>>
    /\ UNCHANGED <<chatVars, delVars, remoteVars>>

\* the post task once both queries answered: return on an existing review or
\* request, otherwise compose the message and call postMessage
Gate ==
    IF HasExisting(reviews, requests, data.author)
    THEN /\ postTask' = "ok"
         /\ Settle(assignTask, milestoneTask, "ok")
         /\ UNCHANGED chatVars
    ELSE /\ postTask' = "getChat"
         /\ StartGetChat
         /\ UNCHANGED <<pubResult, pubPc>>

\* the gate evaluated as soon as one query answers
QueryReturns_NoWait(other) ==
    IF postTask = "queries"
    THEN Gate
    ELSE UNCHANGED <<postTask, pubResult, pubPc, chatVars>>

\* a query of Promise.all([listReviews, listReviewRequests]) answers; other
\* is the state of the other query
QueryReturns(other) ==
    IF other = "ok" /\ postTask = "queries"
    THEN Gate
    ELSE UNCHANGED <<postTask, pubResult, pubPc, chatVars>>

\* a query of Promise.all([listReviews, listReviewRequests]) throws: the post
\* task fails, unless the other query failed it already
QueryThrows ==
    /\ postTask' = IF postTask = "queries" THEN "failed" ELSE postTask
    /\ Settle(assignTask, milestoneTask, "failed")
    /\ UNCHANGED chatVars

ListReviewsReturns ==
    /\ reviewsCall = "pending"
    /\ reviewsCall' = "ok"
    /\ QueryReturns(requestsCall)
    /\ UNCHANGED <<diffMessage, posted, runNo, access, data, assignTask, milestoneTask, requestsCall,
                   calls>>
    /\ UNCHANGED <<delVars, remoteVars>>

ListReviewsThrows ==
    /\ reviewsCall = "pending"
    /\ reviewsCall' = "failed"
    /\ QueryThrows
    /\ UNCHANGED <<diffMessage, posted, runNo, access, data, assignTask, milestoneTask, requestsCall,
                   calls>>
    /\ UNCHANGED <<delVars, remoteVars>>

ListReviewRequestsReturns ==
    /\ requestsCall = "pending"
    /\ requestsCall' = "ok"
    /\ QueryReturns(reviewsCall)
    /\ UNCHANGED <<diffMessage, posted, runNo, access, data, assignTask, milestoneTask, reviewsCall,
                   calls>>
    /\ UNCHANGED <<delVars, remoteVars>>

ListReviewRequestsThrows ==
    /\ requestsCall = "pending"
    /\ requestsCall' = "failed"
    /\ QueryThrows
    /\ UNCHANGED <<diffMessage, posted, runNo, access, data, assignTask, milestoneTask, reviewsCall,
                   calls>>
    /\ UNCHANGED <<delVars, remoteVars>>

\* getChat threw "Slack channel not found" inside postMessage
PublisherChannelNotFound ==
    /\ postTask = "getChat"
    /\ chatPc = "notfound"
    /\ postTask' = "failed"
    /\ Settle(assignTask, milestoneTask, "failed")
    /\ UNCHANGED <<diffMessage, posted, runNo, access, data, assignTask, milestoneTask, reviewsCall,
                   requestsCall, calls>>
    /\ UNCHANGED <<chatVars, delVars, remoteVars>>

\* chat.postMessage answers: the announcement is in the channel
PostMessageReturns ==
    /\ postTask = "getChat"
    /\ chatPc = "resolved"
    /\ calls' = Called(calls, "postMessage", chat)
    /\ posted' = posted + 1
    /\ diffMessage' = DiffMessage(pr)
    /\ postTask' = "ok"
    /\ Settle(assignTask, milestoneTask, "ok")
    /\ UNCHANGED <<runNo, access, data, assignTask, milestoneTask, reviewsCall,
                   requestsCall>>
    /\ UNCHANGED <<chatVars, delVars, remoteVars>>

\* chat.postMessage throws
PostMessageThrows ==
    /\ postTask = "getChat"
    /\ chatPc = "resolved"
    /\ calls' = Called(calls, "postMessage", chat)
    /\ postTask' = "failed"
    /\ Settle(assignTask, milestoneTask, "failed")
    /\ diffMessage' = DiffMessage(pr)
    /\ UNCHANGED <<posted, runNo, access, data, assignTask, milestoneTask, reviewsCall,
                   requestsCall>>
    /\ UNCHANGED <<chatVars, delVars, remoteVars>>

\* the workflow is triggered again for the same pull request
NextRun ==
    /\ pubPc = "done"
    /\ Quiescent
    /\ runNo < MaxRuns
    /\ runNo' = runNo + 1
    /\ pubPc' = "start"
    /\ pubResult' = "running"
    /\ data' = NoData
    /\ access' = "none"
    /\ assignTask' = "none"
    /\ milestoneTask' = "none"
    /\ reviewsCall' = "none"
    /\ requestsCall' = "none"
    /\ postTask' = "none"
    /\ calls' = NoCalls
    /\ chatPc' = "idle"
    /\ groups' = Undefined
    /\ channels' = <<>>
    /\ listLog' = <<>>
    /\ memberships' = <<>>
    /\ chat' = NoChannel
    /\ diffMessage' = NoMessage
    /\ UNCHANGED <<notificationChannel, pages, posted>>
    /\ UNCHANGED <<delVars, remoteVars>>

----------------------------------------------------------------------------
(* Specification of the channel resolver alone *)

InitChat(names, worlds) ==
    /\ notificationChannel \in names
    /\ pages \in worlds
    /\ groups = Undefined
    /\ channels = <<>>
    /\ listLog = <<>>
    /\ memberships = <<>>
    /\ chat = NoChannel

\* the Deleter is not running
DeleterIdle ==
    /\ elevatedClient = FALSE
    /\ delPc = "idle"
    /\ delResult = "running"
    /\ messages = <<>>
    /\ messagesToDelete = <<>>
    /\ replies = <<>>
    /\ idx = 0
    /\ didx = 0
    /\ fetchLog = <<>>
    /\ deleteLog = <<>>
    /\ historyCall = "none"
    /\ lastPass = NoPass

\* no pull request, the Publisher is not running
PublisherIdle ==
    /\ pr = [draft |-> TRUE, additions |-> 0, deletions |-> 0, changed_files |-> 0]
    /\ issue = NoData
    /\ writeAccess = FALSE
    /\ repoMilestone = ""
    /\ reviews = <<>>
    /\ requests = <<>>
    /\ posted = 0
    /\ runNo = 0
    /\ pubPc = "idle"
    /\ pubResult = "running"
    /\ data = NoData
    /\ access = "none"
    /\ assignTask = "none"
    /\ milestoneTask = "none"
    /\ reviewsCall = "none"
    /\ requestsCall = "none"
    /\ postTask = "none"
    /\ calls = NoCalls
    /\ diffMessage = NoMessage

InitList ==
    /\ InitChat({"", "codereview"}, PageSeqs(MaxPages))
    /\ chatPc = "listing"
    /\ DeleterIdle
    /\ PublisherIdle

NextList == ListPageOk \/ ListPageFails

SpecList == InitList /\ [][NextList]_vars

----------------------------------------------------------------------------
(* Specification of one Deleter run *)

\* the membership pages of the runs that are not about the resolver itself
ChatWorlds ==
    LET c(i) == CHOOSE x \in ChannelPool : x.id = i
    IN  { << <<c("C3")>>, <<c("C2"), c("C1")>> >>, << <<c("C3"), c("C2")>> >> }

InitDel ==
    /\ InitChat({"codereview"}, ChatWorlds)
    /\ chatPc = "listing"
    /\ elevatedClient \in BOOLEAN
    /\ delPc = "getChat"
    /\ delResult = "running"
    /\ messages = <<>>
    /\ messagesToDelete = <<>>
    /\ replies = <<>>
    /\ idx = 0
    /\ didx = 0
    /\ fetchLog = <<>>
    /\ deleteLog = <<>>
    /\ historyCall = "none"
    /\ lastPass = NoPass
    /\ PublisherIdle

NextDel ==
    \/ ListPageOk
    \/ ListPageFails
    \/ DeleterChannelNotFound
    \/ HistoryFails
    \/ HistoryReturns
    \/ RepliesRejects
    \/ RepliesNotOk
    \/ RepliesReturns
    \/ DeleteReturns
    \/ DeleteThrows

SpecDel == InitDel /\ [][NextDel]_vars

----------------------------------------------------------------------------
(* Specification of two Deleter runs in a row on the same channel *)

NextTwice == NextDel \/ NextPass

SpecTwice == InitDel /\ [][NextTwice]_vars

----------------------------------------------------------------------------
(* Specification of the Publisher runs for one pull request *)

\* the pull requests of the runs: a draft, and non-draft ones with every number
\* of changed files up to MaxFiles and small or four-digit line counts
PullRequests ==
    {[draft |-> TRUE, additions |-> 5, deletions |-> 0, changed_files |-> 1]}
    \cup {[draft |-> FALSE, additions |-> 5, deletions |-> 0, changed_files |-> n]
             : n \in 0..MaxFiles}
    \cup {[draft |-> FALSE, additions |-> 1234, deletions |-> 1005,
            changed_files |-> MaxFiles]}

\* the logins listReviews can answer with: up to n reviews by the author
\* ("alice") or by somebody else
ReviewLists(n) == UNION {[1..k -> {"alice", "bob"}] : k \in 0..n}

InitPub ==
    /\ InitChat({"codereview"}, ChatWorlds)
    /\ chatPc = "idle"
    /\ DeleterIdle
    /\ pr \in PullRequests
    /\ issue \in [author : {"alice"}, assignee : {"", "carol"}, milestone : {"", "m0"}]
    /\ writeAccess \in BOOLEAN
    /\ repoMilestone \in {"", "m1"}
    /\ reviews \in ReviewLists(MaxReviews)
    /\ requests \in {<<>>, <<"dave">>}
    /\ posted = 0
    /\ runNo = 1
    /\ pubPc = "start"
    /\ pubResult = "running"
    /\ data = NoData
    /\ access = "none"
    /\ assignTask = "none"
    /\ milestoneTask = "none"
    /\ reviewsCall = "none"
    /\ requestsCall = "none"
    /\ postTask = "none"
    /\ calls = NoCalls
    /\ diffMessage = NoMessage

NextPub ==
    \/ RunStarts
    \/ GetIssueReturns
    \/ ProviderThrows
    \/ HasWriteAccessReturns
    \/ AddAssigneeSettles
    \/ MilestoneQueryReturns
    \/ MilestoneQueryThrows
    \/ SetMilestoneSettles
    \/ ListReviewsReturns
    \/ ListReviewsThrows
    \/ ListReviewRequestsReturns
    \/ ListReviewRequestsThrows
    \/ ListPageOk
    \/ ListPageFails
    \/ PublisherChannelNotFound
    \/ PostMessageReturns
    \/ PostMessageThrows
    \/ NextRun

SpecPub == InitPub /\ [][NextPub]_vars

----------------------------------------------------------------------------
(* Specification of one invocation of either entry point *)

InitEntry == InitDel \/ InitPub

NextEntry == NextDel \/ NextPub

SpecEntry == InitEntry /\ [][NextEntry]_vars

----------------------------------------------------------------------------
(* Properties of the Publisher, checked under SpecPub *)

Range(seq) == {seq[i] : i \in 1..Len(seq)}

\* the pull request is open, not a draft, by an author with write access,
\* and nobody but the author reviewed it or is asked to
Unclaimed ==
    /\ ~pr.draft
    /\ writeAccess
    /\ ~HasExistingReview(reviews, issue.author)
    /\ requests = <<>>

\* C1: whatever the number of Publisher runs for the same open, non-draft,
\* unreviewed and unrequested pull request of an author with write access,
\* the channel holds at most one announcement of it.
C1_AtMostOneAnnouncement == Unclaimed => posted <= 1

\* the three tasks of the current run were created
TasksCreated == postTask # "none"

\* the assignment and milestone calls the run owes once the tasks are created
\* and getCurrentRepoMilestone has answered
SideEffectsDone ==
    /\ calls["addAssignee"] =
         IF issue.assignee = "" THEN <<issue.author>> ELSE <<>>
    /\ Len(calls["getCurrentRepoMilestone"]) = 1
    /\ milestoneTask \in {"set", "ok"} =>
         calls["setMilestone"] =
           IF issue.milestone = "" /\ repoMilestone # ""
           THEN <<repoMilestone>> ELSE <<>>

\* C2: for a non-draft pull request of an author with write access that has
\* a review by somebody else, a run makes the assignment and milestone calls
\* that apply, requests no channel listing and posts nothing.
C2_ReviewedNoPost ==
    (TasksCreated /\ HasExistingReview(reviews, issue.author)) =>
        /\ SideEffectsDone
        /\ calls["postMessage"] = <<>>
        /\ listLog = <<>>
        /\ posted = 0

C2_Witness ==
    /\ pubPc = "done"
    /\ pubResult = "ok"
    /\ Quiescent
    /\ HasExistingReview(reviews, issue.author)
    /\ requests = <<>>
    /\ reviewsCall = "ok"
    /\ requestsCall = "ok"
    /\ calls["addAssignee"] = <<"alice">>
    /\ calls["setMilestone"] = <<"m1">>
    /\ calls["postMessage"] = <<>>

\* C3: for a non-draft pull request of an author with write access, without
\* milestone, in a repository whose current milestone is M, a run calls
\* setMilestone(M) once getCurrentRepoMilestone answered M, and
\* addAssignee(author) if the pull request has no assignee, whatever the
\* reviews and review requests are.
C3_MilestoneAndAssignee ==
    (TasksCreated /\ issue.milestone = "" /\ repoMilestone # "") =>
        /\ milestoneTask \in {"set", "ok"} =>
             calls["setMilestone"] = <<repoMilestone>>
        /\ issue.assignee = "" => calls["addAssignee"] = <<issue.author>>

C3_Witness ==
    /\ pubPc = "done"
    /\ Quiescent
    /\ issue.milestone = ""
    /\ issue.assignee = ""
    /\ reviews = <<"bob", "alice">>
    /\ requests # <<>>
    /\ milestoneTask = "ok"
    /\ calls["setMilestone"] = <<"m1">>
    /\ calls["addAssignee"] = <<"alice">>

\* C4: for a draft pull request a run calls neither provider, requests no
\* channel listing, posts nothing and returns without error.
C4_DraftNoCalls ==
    pr.draft =>
        /\ calls = NoCalls
        /\ listLog = <<>>
        /\ chatPc = "idle"
        /\ posted = 0
        /\ pubResult # "failed"
        /\ pubPc \in {"start", "done"}
        /\ pubPc = "done" => pubResult = "ok"

C4_Witness ==
    /\ pr.draft
    /\ writeAccess
    /\ requests = <<>>
    /\ reviews = <<>>
    /\ pubPc = "done"
    /\ pubResult = "ok"
    /\ runNo = MaxRuns

----------------------------------------------------------------------------
(* Properties of the Deleter, checked under SpecDel *)

\* the replies were pushed onto messagesToDelete
Pushed == delPc = "deleting" \/ (delPc = "done" /\ delResult = "ok")

\* the messages the filter selected
Candidates ==
    IF Pushed
    THEN SubSeq(messagesToDelete, 1, Len(messagesToDelete) - Len(replies))
    ELSE messagesToDelete

\* the message bears a white_check_mark reaction with count >= 1
HasCheckMark(m) ==
    /\ m.reactions.present
    /\ \E r \in Range(m.reactions.list) :
         r.name = "white_check_mark" /\ r.count >= 1

\* the selection rule: a subtype, the PR URL in the text, or a client with
\* elevated rights and a white_check_mark reaction
Selected(m) ==
    \/ m.subtype # ""
    \/ Includes(m.text, PrUrl)
    \/ elevatedClient /\ HasCheckMark(m)

\* C5: the messages selected from the history are exactly those with a
\* subtype, or with the PR URL in their text, or, when an elevated client is
\* configured, with a white_check_mark reaction; in history order.
C5_SelectionRule == Candidates = SelectSeq(messages, Selected)

C5_Witness ==
    /\ delPc = "done"
    /\ delResult = "ok"
    /\ ~elevatedClient
    /\ Len(messages) = 2
    /\ HasCheckMark(messages[1])
    /\ ~Includes(messages[1].text, PrUrl)
    /\ messages[1].subtype = ""
    /\ Candidates = <<messages[2]>>
    /\ messages[2].subtype = ""

\* every conversations.replies call of the pass was answered with a thread
AllFetchesOk == \A i \in 1..Len(fetchLog) : fetchLog[i].result = "ok"

\* every chat.delete call of the pass succeeded
AllDeletesOk == \A i \in 1..Len(deleteLog) : deleteLog[i].ok

\* the items after the root of the threads fetched so far, in fetch order
RECURSIVE FetchedReplies(_)
FetchedReplies(log) ==
    IF log = <<>> THEN <<>>
    ELSE (IF Head(log).result = "ok" THEN Tail(Head(log).thread) ELSE <<>>)
         \o FetchedReplies(Tail(log))

\* number of items after the root in the threads fetched so far
RECURSIVE ReplyTotal(_)
ReplyTotal(log) ==
    IF log = <<>> THEN 0
    ELSE (IF Head(log).result = "ok" THEN Len(Head(log).thread) - 1 ELSE 0)
         + ReplyTotal(Tail(log))

NoTombstone(list) == \A i \in 1..Len(list) : list[i].subtype # "tombstone"

\* C6: the deletion set is the selected messages followed by every item but
\* the first of each thread fetched for a selected message with replies; a
\* pass whose deletes all succeed and that meets no tombstone issues as many
\* delete calls as there are selected messages and replies.
C6_RepliesWithoutRoot ==
    /\ replies = FetchedReplies(fetchLog)
    /\ Pushed => messagesToDelete = Candidates \o FetchedReplies(fetchLog)
    /\ (delPc = "done" /\ delResult = "ok" /\ AllDeletesOk
          /\ NoTombstone(messagesToDelete)) =>
         Len(deleteLog) = Len(Candidates) + ReplyTotal(fetchLog)

C6_Witness ==
    /\ delPc = "done"
    /\ delResult = "ok"
    /\ AllDeletesOk
    /\ Len(messages) = 2
    /\ Len(Candidates) = 1
    /\ Includes(Candidates[1].text, PrUrl)
    /\ Candidates[1].reply_count = 2
    /\ Len(fetchLog) = 1
    /\ fetchLog[1].result = "ok"
    /\ Len(fetchLog[1].thread) = 3
    /\ Len(deleteLog) = 3
    /\ deleteLog[1].ts = Candidates[1].ts
    /\ \A i \in 2..3 : deleteLog[i].ts = fetchLog[1].thread[i].ts

\* timestamps passed to chat.delete
DeletedTs == {deleteLog[i].ts : i \in 1..Len(deleteLog)}

\* timestamps of the threads fetched
FetchedTs == {fetchLog[i].ts : i \in 1..Len(fetchLog)}

\* C7: no tombstone is passed to chat.delete; the thread of a selected
\* tombstone with replies is fetched in every pass whose reply loop ends, and
\* in a pass without failed delete its replies are passed to chat.delete.
C7_TombstoneKeptItsRepliesDeleted ==
    /\ \A m \in Range(messages) \cup Range(messagesToDelete) :
         m.subtype = "tombstone" => m.ts \notin DeletedTs
    /\ Pushed =>
         \A m \in Range(messages) :
           (m.subtype = "tombstone" /\ m.reply_count > 0) => m.ts \in FetchedTs
    /\ (delPc = "done" /\ delResult = "ok" /\ AllDeletesOk) =>
         \A r \in Range(FetchedReplies(fetchLog)) :
           r.subtype # "tombstone" => r.ts \in DeletedTs

C7_Witness ==
    /\ delPc = "done"
    /\ delResult = "ok"
    /\ Len(messages) = 1
    /\ messages[1].subtype = "tombstone"
    /\ messages[1].reply_count > 0
    /\ Len(fetchLog) = 1
    /\ Len(fetchLog[1].thread) = 3
    /\ fetchLog[1].thread[3].subtype = "tombstone"
    /\ deleteLog = <<[ts |-> fetchLog[1].thread[2].ts, as_user |-> TRUE, ok |-> TRUE]>>

\* the messages of the deletion set that are no tombstones
Deletable == SelectSeq(messagesToDelete, LAMBDA m : m.subtype # "tombstone")

\* C8: a failed delete call is the last delete call of the pass: the calls
\* made are a prefix of the deletion set, none repeated, and the run returns
\* without error.
C8_DeleteFailureStopsLoop ==
    /\ Len(deleteLog) <= Len(Deletable)
    /\ \A i \in 1..Len(deleteLog) :
         /\ deleteLog[i].ts = Deletable[i].ts
         /\ ~deleteLog[i].ok =>
              /\ i = Len(deleteLog)
              /\ delPc = "done"
              /\ delResult = "ok"

C8_Witness ==
    /\ delPc = "done"
    /\ delResult = "ok"
    /\ Len(Deletable) = 3
    /\ Len(deleteLog) = 2
    /\ deleteLog[1].ok
    /\ ~deleteLog[2].ok

\* C9: the failure of a thread fetch does not fail the run: the pass goes on
\* with the next thread and with the deletes.
C9_FetchFailureNotFatal ==
    (\E i \in 1..Len(fetchLog) : fetchLog[i].result # "ok") =>
        delResult # "failed"

----------------------------------------------------------------------------
(* Properties of the channel resolver, checked under SpecList *)

RECURSIVE Flatten(_)
Flatten(ps) == IF ps = <<>> THEN <<>> ELSE Head(ps) \o Flatten(Tail(ps))

\* every conversations.list request so far succeeded
AllPagesOk == \A i \in 1..Len(listLog) : listLog[i].ok

\* positions of the member entries of the server's pages
MemberEntries ==
    {<<k, j>> \in (1..Len(pages)) \X (1..Cardinality(ChannelPool)) :
        j <= Len(pages[k]) /\ pages[k][j].is_member}

\* C10: when every page fetch succeeded, listAllMemberships requested each
\* page once, in cursor order, and returns the member entries of all pages
\* and nothing else.
C10_ExactUnionOfMembers ==
    (chatPc \in {"resolved", "notfound"} /\ AllPagesOk) =>
        /\ Len(listLog) = Len(pages)
        /\ \A i \in 1..Len(listLog) :
             listLog[i].cursor = IF i = 1 THEN NoCursor ELSE i
        /\ Range(memberships) = {c \in Range(Flatten(pages)) : c.is_member}
        /\ Len(memberships) = Cardinality(MemberEntries)

C10_Witness ==
    /\ chatPc = "resolved"
    /\ AllPagesOk
    /\ Len(pages) = MaxPages
    /\ Len(listLog) = MaxPages
    /\ \A k \in 1..Len(pages) :
         /\ Len(pages[k]) = 2
         /\ pages[k][1].is_member
         /\ ~pages[k][2].is_member
    /\ Len(memberships) = MaxPages

----------------------------------------------------------------------------
(* Further properties of the channel resolver, checked under SpecList *)

\* the member entries of the first k pages, in page order
MembersOfFirst(k) ==
    SelectSeq(Flatten(SubSeq(pages, 1, k)), LAMBDA c : c.is_member)

\* C11: a failed page fetch is the last conversations.list request; the
\* member channels of the pages fetched before it are kept, and getChat finds
\* the channel if and only if the configured name is among them, so never
\* when the first page fails.
C11_PageFailureStopsPaging ==
    \A i \in 1..Len(listLog) :
        ~listLog[i].ok =>
            /\ i = Len(listLog)
            /\ chatPc \in {"resolved", "notfound"}
            /\ memberships = MembersOfFirst(i - 1)
            /\ chatPc = "resolved" <=>
                 \E m \in Range(MembersOfFirst(i - 1)) : m.name = notificationChannel
            /\ chatPc = "resolved" =>
                 \E m \in Range(MembersOfFirst(i - 1)) :
                    m.name = notificationChannel /\ m.id = chat
            /\ i = 1 => chatPc = "notfound"

C11_Witness ==
    /\ Len(pages) = 2
    /\ Len(listLog) = 2
    /\ listLog[1].ok
    /\ ~listLog[2].ok
    /\ chatPc = "resolved"
    /\ Len(memberships) = 2
    /\ \E j \in 1..Len(pages[2]) :
         pages[2][j].is_member /\ pages[2][j].name = notificationChannel

----------------------------------------------------------------------------
(* Properties of both entry points, checked under SpecEntry *)

\* pagination is over and no member channel bears the configured name
NoMatch ==
    /\ chatPc \in {"resolved", "notfound"}
    /\ \A m \in Range(memberships) : m.name # notificationChannel

\* C12: when the configured name matches no member channel after pagination,
\* the run fails: the Publisher posts nothing and its run ends failed, the
\* Deleter ends failed without a history fetch, thread fetch or delete call.
C12_ChannelNotFoundFatal ==
    NoMatch =>
        /\ calls["postMessage"] = <<>>
        /\ pubResult # "ok"
        /\ (pubPc # "idle" /\ postTask # "getChat") =>
             (pubPc = "done" /\ pubResult = "failed")
        /\ delResult # "ok"
        /\ delPc = "done" => delResult = "failed"
        /\ historyCall = "none"
        /\ fetchLog = <<>>
        /\ deleteLog = <<>>

C12_Witness ==
    /\ NoMatch
    /\ AllPagesOk
    /\ Len(memberships) = 1
    /\ delPc = "done"
    /\ delResult = "failed"
    /\ elevatedClient

----------------------------------------------------------------------------
(* Further properties of the Publisher, checked under SpecPub *)

\* C13: the tasks are all started together, whatever their outcomes; the run
\* succeeds only if every started task succeeded and fails as soon as one
\* fails, and what another task did stays done.
C13_AllSucceedAnyFail ==
    /\ TasksCreated =>
         /\ assignTask # "none" <=> issue.assignee = ""
         /\ milestoneTask # "none"
         /\ reviewsCall # "none"
         /\ requestsCall # "none"
         /\ Len(calls["addAssignee"]) = IF issue.assignee = "" THEN 1 ELSE 0
         /\ Len(calls["getCurrentRepoMilestone"]) = 1
         /\ Len(calls["listReviews"]) = 1
         /\ Len(calls["listReviewRequests"]) = 1
    /\ (TasksCreated /\ pubResult = "ok") =>
         /\ assignTask \in {"none", "ok"}
         /\ milestoneTask = "ok"
         /\ postTask = "ok"
    /\ "failed" \in {assignTask, milestoneTask, postTask} => pubResult = "failed"
    /\ (pubResult = "failed" /\ postTask = "ok" /\ chatPc = "resolved") =>
         (calls["postMessage"] = <<chat>> /\ posted >= 1)

C13_Witness ==
    /\ pubPc = "done"
    /\ pubResult = "failed"
    /\ Quiescent
    /\ assignTask = "ok"
    /\ milestoneTask = "failed"
    /\ calls["setMilestone"] = <<"m1">>
    /\ postTask = "ok"
    /\ calls["postMessage"] = <<"C1">>
    /\ posted = 1

\* the pull request is not a draft, its author has write access, every
\* review is the author's own and nobody is asked for a review
Eligible ==
    /\ ~pr.draft
    /\ writeAccess
    /\ \A i \in 1..Len(reviews) : reviews[i] = issue.author
    /\ Len(requests) = 0

\* C15: a run in which nothing failed posts exactly one message if the pull
\* request is not a draft, its author has write access, nobody else reviewed
\* it and no review is requested, and no message otherwise.
C15_PostsIffEligible ==
    (pubPc = "done" /\ pubResult = "ok" /\ Quiescent) =>
        Len(calls["postMessage"]) = IF Eligible THEN 1 ELSE 0

C15_Witness ==
    /\ pubPc = "done"
    /\ pubResult = "ok"
    /\ Quiescent
    /\ reviews = <<"alice", "alice">>
    /\ calls["postMessage"] = <<"C1">>
    /\ posted = 1

\* C16: listReviews and listReviewRequests are issued together; no channel
\* listing is requested and nothing is posted before both answered, and when
\* one of them throws nothing is posted and the run fails.
C16_GateAfterBothQueries ==
    /\ reviewsCall = "none" <=> requestsCall = "none"
    /\ Len(calls["listReviews"]) = Len(calls["listReviewRequests"])
    /\ (chatPc # "idle" \/ listLog # <<>> \/ calls["postMessage"] # <<>>) =>
         (reviewsCall = "ok" /\ requestsCall = "ok")
    /\ "failed" \in {reviewsCall, requestsCall} =>
         /\ calls["postMessage"] = <<>>
         /\ listLog = <<>>
         /\ postTask = "failed"
         /\ pubResult = "failed"

C16_Witness ==
    /\ Eligible
    /\ Quiescent
    /\ reviewsCall = "ok"
    /\ requestsCall = "failed"
    /\ assignTask = "ok"
    /\ milestoneTask = "ok"
    /\ pubResult = "failed"
    /\ calls["postMessage"] = <<>>

\* C17: when the author of a non-draft pull request has no write access, the
\* run makes no assignment, milestone or review call, requests no channel
\* listing, posts nothing, and returns without error once hasWriteAccess
\* answered.
C17_NoWriteAccessNoOp ==
    (~pr.draft /\ ~writeAccess) =>
        /\ \A a \in Apis \ {"getIssue", "hasWriteAccess"} : calls[a] = <<>>
        /\ ~TasksCreated
        /\ listLog = <<>>
        /\ chatPc = "idle"
        /\ posted = 0
        /\ access = "no" => (pubPc = "done" /\ pubResult = "ok")

C17_Witness ==
    /\ ~pr.draft
    /\ access = "no"
    /\ pubPc = "done"
    /\ pubResult = "ok"
    /\ issue.assignee = ""
    /\ issue.milestone = ""
    /\ repoMilestone = "m1"
    /\ reviews = <<>>
    /\ requests = <<>>
    /\ calls["hasWriteAccess"] = <<"alice">>

\* C18: addAssignee is called only for an issue without assignee, and then
\* with the author; setMilestone is called only for an issue without
\* milestone in a repository with a current milestone, and then with that one.
C18_OnlyWhenMissing ==
    /\ calls["addAssignee"] # <<>> =>
         (issue.assignee = "" /\ calls["addAssignee"] = <<issue.author>>)
    /\ calls["setMilestone"] # <<>> =>
         /\ issue.milestone = ""
         /\ repoMilestone # ""
         /\ calls["setMilestone"] = <<repoMilestone>>

C18_Witness ==
    /\ pubPc = "tasks"
    /\ assignTask = "pending"
    /\ milestoneTask = "set"
    /\ calls["addAssignee"] = <<"alice">>
    /\ calls["setMilestone"] = <<"m1">>
    /\ data.assignee = ""
    /\ data.milestone = ""

----------------------------------------------------------------------------
(* Further properties of the Deleter, checked under SpecDel *)

\* C14: when conversations.history rejects or answers without ok or without
\* messages, the run fails and makes no thread fetch and no delete call.
C14_HistoryFailureFatal ==
    historyCall \in {"rejected", "notok"} =>
        /\ delPc = "done"
        /\ delResult = "failed"
        /\ messages = <<>>
        /\ fetchLog = <<>>
        /\ deleteLog = <<>>

C14_Witness ==
    /\ historyCall = "notok"
    /\ chatPc = "resolved"
    /\ delPc = "done"
    /\ delResult = "failed"

\* C19: every delete call of a pass is made as the elevated user when an
\* elevated client is configured and as the bot itself when none is, also
\* after a delete call failed.
C19_OneClientPerPass ==
    \A i \in 1..Len(deleteLog) : deleteLog[i].as_user = elevatedClient

C19_Witness ==
    /\ elevatedClient
    /\ delPc = "done"
    /\ Len(deleteLog) = 2
    /\ deleteLog[1].as_user
    /\ deleteLog[2].as_user
    /\ ~deleteLog[2].ok
    /\ Len(Deletable) > 2

\* the selected messages with replies to fetch
WithReplies == SelectSeq(Candidates, LAMBDA m : m.reply_count > 0)

\* C20: the threads are fetched one at a time in history order of the
\* selected messages: the fetch awaited is the one after those answered, and
\* no delete call is made before every such thread was fetched.
C20_FetchesInSequence ==
    /\ Len(fetchLog) <= Len(WithReplies)
    /\ \A i \in 1..Len(fetchLog) : fetchLog[i].ts = WithReplies[i].ts
    /\ delPc = "replies" =>
         /\ Len(fetchLog) < Len(WithReplies)
         /\ messagesToDelete[idx].ts = WithReplies[Len(fetchLog) + 1].ts
    /\ (delPc = "deleting" \/ deleteLog # <<>>) =>
         Len(fetchLog) = Len(WithReplies)

C20_Witness ==
    /\ delPc = "deleting"
    /\ deleteLog = <<>>
    /\ Len(fetchLog) = 2
    /\ fetchLog[1].result = "notok"
    /\ fetchLog[2].result = "ok"
    /\ Len(fetchLog[2].thread) = 3

----------------------------------------------------------------------------
\* C21: the diff summary of a posted announcement reads
\* "+<additions> -<deletions>, <n> file" with the singular "file" exactly
\* when n = 1 and the plural "files" for every other n >= 0, n = 0 included.
C21_Pluralization ==
    calls["postMessage"] # <<>> =>
        diffMessage = "+" \o LocaleString(pr.additions) \o " -"
                          \o LocaleString(pr.deletions) \o ", "
                          \o ToString(pr.changed_files)
                          \o (IF pr.changed_files = 1 THEN " file" ELSE " files")

----------------------------------------------------------------------------
\* C22: within one pass no timestamp is passed to chat.delete more than
\* once, whatever history and threads the messaging server answers with.
C22_NoTimestampDeletedTwice ==
    \A i, j \in 1..Len(deleteLog) :
        i # j => deleteLog[i].ts # deleteLog[j].ts

----------------------------------------------------------------------------
\* the selected messages of the history that are no tombstones, in history order
Roots == SelectSeq(SelectSeq(messages, Selected), LAMBDA m : m.subtype # "tombstone")

\* the collected replies that are no tombstones, in the order of the fetches
CollectedReplies ==
    SelectSeq(FetchedReplies(fetchLog), LAMBDA m : m.subtype # "tombstone")

\* C23: the delete calls of a pass follow one order: the selected messages of
\* the history in history order, then the collected replies in the order
\* their threads were fetched.  Hence a delete call for a collected reply is
\* made only after the delete call of every selected message that is no
\* tombstone succeeded, and once the delete call of a selected message failed
\* no delete call for a collected reply is made in that pass.
C23_RootsBeforeReplies ==
    LET Order == Roots \o CollectedReplies
    IN  deleteLog # <<>> =>
          /\ Len(deleteLog) <= Len(Order)
          /\ \A i \in 1..Len(deleteLog) : deleteLog[i].ts = Order[i].ts
          /\ Len(deleteLog) > Len(Roots) =>
               \A j \in 1..Len(Roots) : deleteLog[j].ok
          /\ (\E j \in 1..Len(deleteLog) : j <= Len(Roots) /\ ~deleteLog[j].ok) =>
               Len(deleteLog) <= Len(Roots)

C23_Witness ==
    /\ delPc = "done"
    /\ delResult = "ok"
    /\ Len(Roots) = 2
    /\ Len(CollectedReplies) = 2
    /\ Len(deleteLog) = 4
    /\ deleteLog[1].ts = messages[1].ts
    /\ deleteLog[2].ts = messages[2].ts
    /\ deleteLog[3].ts = CollectedReplies[1].ts
    /\ deleteLog[3].ts \notin {messages[1].ts, messages[2].ts}
    /\ AllDeletesOk

----------------------------------------------------------------------------
\* the pass before this one completed with every delete call succeeding
FullSuccess ==
    /\ lastPass.known
    /\ \A i \in 1..Len(lastPass.deleteLog) : lastPass.deleteLog[i].ok

\* C24 as stated: after a pass that completed with every delete call
\* succeeding, the pass that follows immediately on the channel state the
\* first one left issues no delete call.
C24_SecondPassDeletesNothing == FullSuccess => deleteLog = <<>>

\* every thread fetch of the pass before was answered with the thread
EveryFetchAnswered ==
    \A i \in 1..Len(lastPass.fetchLog) : lastPass.fetchLog[i].result = "ok"

\* the pass before fetched the thread of every message with replies it deleted
DeletedThreadsFetched ==
    \A m \in Range(lastPass.messages) \cup Range(FetchedReplies(lastPass.fetchLog)) :
        (m.ts \in GoneTs(lastPass) /\ m.reply_count > 0) => KnownThread(lastPass, m.ts)

\* the history of this pass holds no message the history of the pass before
\* did not hold
NothingEntered ==
    \A i \in 1..Len(messages) :
        \E j \in 1..Len(lastPass.messages) : messages[i].ts = lastPass.messages[j].ts

\* C24 amended: after a pass that completed with every delete call succeeding
\* and that was answered the thread of every message with replies it selected
\* or deleted, the pass that follows immediately issues no delete call,
\* provided its history holds no message that was not in the first history.
C24_SecondPassDeletesNothingAfterFullFetch ==
    (FullSuccess /\ EveryFetchAnswered /\ DeletedThreadsFetched /\ NothingEntered) =>
        deleteLog = <<>>

C24_Witness ==
    /\ FullSuccess
    /\ EveryFetchAnswered
    /\ DeletedThreadsFetched
    /\ Len(lastPass.deleteLog) = 2
    /\ Len(lastPass.fetchLog) = 1
    /\ delPc = "done"
    /\ delResult = "ok"
    /\ Len(messages) = 2
    /\ NothingEntered
    /\ messages[1].subtype = "tombstone"
    /\ lastPass.messages[1].subtype = ""
    /\ Len(fetchLog) = 1
    /\ fetchLog[1].result = "ok"
    /\ Len(fetchLog[1].thread) = 2
    /\ fetchLog[1].thread[2].subtype = "tombstone"
    /\ deleteLog = <<>>

====
